---- MODULE Spec2Model ----
(***************************************************************************)
(* Model of skid/sync-poc: a versioned event log (SQLite tables `events`   *)
(* and `snapshots`) with the optimistic synchronisation engine of          *)
(* src/src/operations.ts, served by the express routes of                  *)
(* src/unnamed/part_000 over ONE shared database connection.               *)
(*                                                                         *)
(* Every `await db.*` of a handler is one atomic step; the synchronous     *)
(* code between two awaits belongs to the step of the preceding await.     *)
(* Handlers of different requests interleave at these steps.               *)
(***************************************************************************)
EXTENDS Integers, Sequences, FiniteSets, TLC

(***************************************************************************)
(* Bounds of the model.                                                    *)
(***************************************************************************)
\* number of request handlers that may be in flight at the same time
NumReq == 2
\* number of valid submissions admitted in one behaviour
MaxSubmits == 2
\* length of the event log a started server may already hold
MaxInit == 3
\* number of calls of fetch() the browser client may have in flight
MaxFetches == 2
\* largest snapshot version a pure function is called with
MaxVersion == 2
\* number of valid submissions admitted in one behaviour of Crowded
MaxCrowd == 4
\* number of event rows that are missing from a damaged database file
MaxMissing == 2

\* the checkpoint cadence of the code: `snapshot.version % 5 === 0`
SnapshotEvery == 5

Requests == 1..NumReq
Fetches == 1..MaxFetches

(***************************************************************************)
(* JavaScript values of a request body.  A number is the rational n/d      *)
(* (d is 1 or 2), so that non-integer versions are inputs too; any other   *)
(* value carries its `typeof` tag.                                         *)
(***************************************************************************)
Num(i) == [t |-> "number", n |-> i, d |-> 1]
Half(i) == [t |-> "number", n |-> 2 * i + 1, d |-> 2]
Str(s) == [t |-> "string", s |-> s]
Undefined == [t |-> "undefined", s |-> ""]
NotANumber == [t |-> "string", n |-> 1, d |-> 1]
NoVersion == [t |-> "undefined", n |-> 0, d |-> 1]
TypeOf(v) == v.t

\* a < b for a number record a and an integer b
NumLess(a, b) == a.n < b * a.d
\* b > a for an integer b and a number record a
IntGreater(b, a) == b * a.d > a.n
IsInteger(a) == a.n % a.d = 0

Keys == {"a", "b"}
\* the keys of request bodies: any string, here one that a document can
\* hold and one that it can not
ProtoKey == "__proto__"
PayloadKeys == {"a", ProtoKey}
AllKeys == Keys \cup {ProtoKey}
Values == {"x", "y"}

(***************************************************************************)
(* Documents: a Doc is a function from the keys it holds to their values.  *)
(***************************************************************************)
EmptyDoc == << >>
\* doc[k] = v on a plain object: the assignment to "__proto__" goes to the
\* setter of Object.prototype, which ignores a value that is a string
DocSet(doc, k, v) ==
  IF k = ProtoKey THEN doc
  ELSE [x \in (DOMAIN doc) \cup {k} |-> IF x = k THEN v ELSE doc[x]]
\* mutant: deleting a key that is absent empties the document
DocDeleteAbsentClears(doc, k) ==
  IF k \in DOMAIN doc THEN [x \in (DOMAIN doc) \ {k} |-> doc[x]] ELSE << >>
DocDelete(doc, k) == [x \in (DOMAIN doc) \ {k} |-> doc[x]]

\* JSON.stringify(doc): the text of an object is its list of "key":"value"
\* members, modelled as the set of <<key, value>> pairs
JSONstringify(doc) == {<<k, doc[k]>> : k \in DOMAIN doc}
\* JSON.parse(text): the object that holds one property per member
JSONparse(text) ==
  [k \in {p[1] : p \in text} |-> (CHOOSE p \in text : p[1] = k)[2]]

(***************************************************************************)
(* applyEvent (operations.ts 196-210).  A throw is the record with         *)
(* ok = FALSE that carries the message of the Error.                       *)
(***************************************************************************)
Thrown(msg) == [ok |-> FALSE, version |-> 0, doc |-> EmptyDoc, message |-> msg]
Returned(version, doc) == [ok |-> TRUE, version |-> version, doc |-> doc, message |-> << >>]
CanNotApply(id, version) == <<"Can not apply event", id, "to snapshot version", version>>

applyEvent(snapshot, event) ==
  IF snapshot.version + 1 # event.id
  THEN Thrown(CanNotApply(event.id, snapshot.version))
  ELSE LET doc == IF event.op = "UPSERT" THEN DocSet(snapshot.doc, event.key, event.value)
                  ELSE IF event.op = "DELETE" THEN DocDelete(snapshot.doc, event.key)
                  ELSE snapshot.doc
       IN Returned(event.id, doc)

\* mutant: an event that can not be applied is skipped
RECURSIVE reduceApplySkips(_, _)
reduceApplySkips(evs, acc) ==
  IF evs = << >> THEN acc
  ELSE LET next == applyEvent(acc, Head(evs))
       IN reduceApplySkips(Tail(evs), IF next.ok THEN next ELSE acc)

\* events.reduce(applyEvent, snapshot): the first throw ends the fold
RECURSIVE reduceApply(_, _)
reduceApply(evs, acc) ==
  IF ~acc.ok \/ evs = << >> THEN acc
  ELSE reduceApply(Tail(evs), applyEvent(acc, Head(evs)))

Snap(version, doc) == [version |-> version, doc |-> doc]
Reduce(evs, snapshot) == reduceApply(evs, Returned(snapshot.version, snapshot.doc))
(***************************************************************************)
(* The database behind the one shared connection `db`.                     *)
(*   events          rows of table events in id order: [id, op, key, value]*)
(*   snapshots       rows of table snapshots: [event_id, state]            *)
(*   sqlite_sequence the AUTOINCREMENT counter of table events             *)
(*   inTxn, journal  an open transaction and the contents ROLLBACK restores*)
(* Handlers (one per request slot; a slot is free again when its handler   *)
(* has returned or thrown):                                                *)
(*   kind, pc        the route and the await the handler is suspended at   *)
(*   input           req.body of /event, or the :version of /sync          *)
(*   snapshot, freshEvents, event, message   locals of storeEvent          *)
(* History:                                                                *)
(*   outcome         the request handled last, with what res.send() sent   *)
(*                   or the error the handler threw; none from the moment  *)
(*                   the next request is taken up by a handler             *)
(*   submits         valid submissions admitted so far                     *)
(*   accepted        the events of the success results sent, in order      *)
(*   process         the Node process: "running"; "warned" once it has     *)
(*                   reported a rejected promise that nothing handles and  *)
(*                   gone on (Node before 15, or --unhandled-rejections=   *)
(*                   warn); "exited" once such a rejection has ended it    *)
(*                   (the default since Node 15)                           *)
(* The browser client of index.tsx:                                        *)
(*   clientSnapshot  the `snapshot` state of App                           *)
(*   fetches         the calls of fetch() that have not resumed yet, each  *)
(*                   with the `snapshot` its callback closed over          *)
(* Calls of the pure functions:                                            *)
(*   args, ret       the arguments of a call and what it returned or threw *)
(***************************************************************************)
VARIABLES events, snapshots, sqlite_sequence, inTxn, journal,
          kind, pc, input, snapshot, freshEvents, event, message,
          outcome, submits, accepted,
          clientSnapshot, fetches, args, ret, process

dbvars == <<events, snapshots, sqlite_sequence, inTxn, journal>>
locals == <<kind, pc, input, snapshot, freshEvents, event, message>>
\* what a step of a handler that does not throw leaves alone
apart == <<clientSnapshot, args, ret, process>>
vars == <<events, snapshots, sqlite_sequence, inTxn, journal,
          kind, pc, input, snapshot, freshEvents, event, message,
          outcome, submits, accepted,
          clientSnapshot, fetches, args, ret, process>>

NoJournal == [events |-> << >>, snapshots |-> {}, sqlite_sequence |-> 0]
NoEvent == [id |-> 0, op |-> "", key |-> "", value |-> ""]
NoSnapshot == Snap(0, EmptyDoc)
NoInput == [version |-> NoVersion, op |-> Undefined, key |-> Undefined, value |-> Undefined]
NoResponse == [status |-> "", events |-> << >>, snapshot |-> NoSnapshot, message |-> << >>]
NoOutcome == [kind |-> "", input |-> NoInput, response |-> NoResponse]
NoCall == [fn |-> ""]
NotCalled == [called |-> FALSE, value |-> << >>]
Called(v) == [called |-> TRUE, value |-> v]

Success(evs) == [status |-> "success", events |-> evs, snapshot |-> NoSnapshot, message |-> << >>]
SuccessSnapshot(s) == [status |-> "success", events |-> << >>, snapshot |-> s, message |-> << >>]
Error(msg) == [status |-> "error", events |-> << >>, snapshot |-> NoSnapshot, message |-> msg]
\* a rejected promise nothing catches: the handler ends without a response
Uncaught(msg) == [status |-> "thrown", events |-> << >>, snapshot |-> NoSnapshot, message |-> msg]

(***************************************************************************)
(* loadEventsBetween (operations.ts 8-27): `low` is a number, `high` an    *)
(* integer that is ignored when falsy (0, the default).                    *)
(***************************************************************************)
loadEventsBetween(evs, low, high) ==
  SelectSeq(evs, LAMBDA e : IntGreater(e.id, low) /\ (high # 0 => e.id <= high))
(***************************************************************************)
(* loadLastState (operations.ts 42-65) has two awaits.  latestSnapshot is  *)
(* the first (db.get on snapshots, then lines 48-57); foldEvents is the    *)
(* second (loadEventsBetween(db, snapshot.version), then the reduce).      *)
(***************************************************************************)
latestSnapshot(snaps) ==
  IF snaps = {} THEN Snap(0, EmptyDoc)
  ELSE LET result == CHOOSE row \in snaps : \A o \in snaps : o.event_id <= row.event_id
       IN Snap(result.event_id, JSONparse(result.state))

foldEvents(evs, snap) == Reduce(loadEventsBetween(evs, Num(snap.version), 0), snap)

\* the result of loadLastState when nothing else runs between its two awaits
loadLastState(evs, snaps) ==
  LET res == foldEvents(evs, latestSnapshot(snaps))
  IN IF res.ok THEN SuccessSnapshot(Snap(res.version, res.doc)) ELSE Error(res.message)

(***************************************************************************)
(* isValidEventPayload (operations.ts 71-81)                               *)
(***************************************************************************)
isValidEventPayloadNoKeyCheck(ev) ==
  IF TypeOf(ev.version) # "number" THEN FALSE
  ELSE IF ev.op = Str("DELETE") THEN TRUE
  ELSE IF ev.op = Str("UPSERT") THEN TypeOf(ev.value) = "string" /\ TypeOf(ev.key) = "string"
  ELSE FALSE

isValidEventPayload(ev) ==
  IF TypeOf(ev.version) # "number" THEN FALSE
  ELSE IF ev.op = Str("DELETE") THEN TypeOf(ev.key) = "string"
  ELSE IF ev.op = Str("UPSERT") THEN TypeOf(ev.value) = "string" /\ TypeOf(ev.key) = "string"
  ELSE FALSE

(***************************************************************************)
(* Request bodies.  NumVersions(n) holds the integers -1..n and the        *)
(* non-integer 1/2; the other versions are not numbers.                    *)
(***************************************************************************)
NumVersions(n) == {Num(i) : i \in -1..n} \cup {Half(0)}
WellFormed(versions) ==
  {[version |-> ver, op |-> Str("UPSERT"), key |-> Str(k), value |-> Str(v)] :
      ver \in versions, k \in PayloadKeys, v \in Values}
  \cup {[version |-> ver, op |-> Str("DELETE"), key |-> Str(k), value |-> Undefined] :
      ver \in versions, k \in PayloadKeys}
Malformed ==
  { [version |-> Num(0), op |-> Str("DELETE"), key |-> Undefined, value |-> Undefined],
    [version |-> Num(0), op |-> Str("UPSERT"), key |-> Undefined, value |-> Str("x")],
    [version |-> Num(0), op |-> Str("UPSERT"), key |-> Str("a"), value |-> Undefined],
    [version |-> Num(0), op |-> Str("PATCH"), key |-> Str("a"), value |-> Str("x")],
    [version |-> Num(0), op |-> Undefined, key |-> Str("a"), value |-> Str("x")],
    [version |-> NotANumber, op |-> Str("UPSERT"), key |-> Str("a"), value |-> Str("x")],
    [version |-> NoVersion, op |-> Str("DELETE"), key |-> Str("a"), value |-> Undefined] }

(***************************************************************************)
(* SQLite behind the connection.                                           *)
(***************************************************************************)
\* AUTOINCREMENT: one more than the largest rowid the table ever held
RECURSIVE MaxId(_)
MaxId(evs) == IF evs = << >> THEN 0
              ELSE LET m == MaxId(Tail(evs)) IN IF Head(evs).id > m THEN Head(evs).id ELSE m
lastID == (IF sqlite_sequence > MaxId(events) THEN sqlite_sequence ELSE MaxId(events)) + 1

SqliteError(text) == <<"SQLITE_ERROR", text>>
\* the failures of a statement that the storage causes: the database is
\* locked (the transaction stays open), or the disk is full (SQLite rolls
\* the transaction back)
SqliteBusy == <<"SQLITE_BUSY", "database is locked">>
SqliteFull == <<"SQLITE_FULL", "database or disk is full">>
StorageFailures == {SqliteBusy, SqliteFull}

(***************************************************************************)
(* A call of fetch() by the browser client: a request on its way, in the   *)
(* hands of the handler of a slot, or answered with the response on its    *)
(* way back.  Requests of other clients are not tracked (fetch 0).         *)
(***************************************************************************)
NoFetch == [stage |-> "none", kind |-> "", closure |-> NoSnapshot, payload |-> NoInput,
            slot |-> 0, response |-> NoResponse]
\* the request of fetch f reaches the handler of slot r
Takes(f, r) ==
  fetches' = IF f = 0 THEN fetches
             ELSE [fetches EXCEPT ![f].stage = "handling", ![f].slot = r]
\* res.send(resp) to fetch f; a handler that throws sends nothing, and the
\* fetch never resumes its caller
Sends(f, resp) ==
  fetches' = IF f = 0 THEN fetches
             ELSE IF resp.status = "thrown" THEN [fetches EXCEPT ![f] = NoFetch]
             ELSE [fetches EXCEPT ![f].stage = "answered", ![f].slot = 0,
                                  ![f].response = resp]
\* the fetch the handler of slot r serves
ServedBy(r) ==
  IF \E f \in Fetches : fetches[f].slot = r
  THEN CHOOSE f \in Fetches : fetches[f].slot = r ELSE 0

(***************************************************************************)
(* The end of a handler.  Ends(r, resp): the handler of slot r returns     *)
(* resp to its route, which sends it, or throws (resp is Uncaught); its    *)
(* locals are gone and the slot is free.  Answers(f, k, in, resp): a       *)
(* handler that ends in the step in which its request arrived.             *)
(***************************************************************************)
Ends(r, resp) ==
  /\ outcome' = [kind |-> kind[r], input |-> input[r], response |-> resp]
  /\ Sends(ServedBy(r), resp)
  /\ pc' = [pc EXCEPT ![r] = "idle"]
  /\ kind' = [kind EXCEPT ![r] = ""]
  /\ input' = [input EXCEPT ![r] = NoInput]
  /\ snapshot' = [snapshot EXCEPT ![r] = NoSnapshot]
  /\ freshEvents' = [freshEvents EXCEPT ![r] = << >>]
  /\ event' = [event EXCEPT ![r] = NoEvent]
  /\ message' = [message EXCEPT ![r] = << >>]

Answers(f, k, in, resp) ==
  /\ outcome' = [kind |-> k, input |-> in, response |-> resp]
  /\ Sends(f, resp)
  /\ UNCHANGED locals

(***************************************************************************)
(* A rejected db.run, db.get or db.all: nothing catches it, so the promise *)
(* of the async route callback (part_000 16-29) is rejected and Express    *)
(* drops it.  Exits: the process ends; every handler in flight is gone, no       *)
(* response is sent, and the transaction that was open is rolled back.     *)
(* Survives: the rejection is only reported; the handler of slot r is      *)
(* gone, and the transaction stays open unless SQLite rolled it back.      *)
(* Which of the two happens depends on the version of Node and its flags.  *)
(***************************************************************************)
RolledBack ==
  /\ events' = (IF inTxn THEN journal.events ELSE events)
  /\ snapshots' = (IF inTxn THEN journal.snapshots ELSE snapshots)
  /\ sqlite_sequence' = (IF inTxn THEN journal.sqlite_sequence ELSE sqlite_sequence)
  /\ inTxn' = FALSE
  /\ journal' = NoJournal

Exits(k, in, msg) ==
  /\ process' = "exited"
  /\ outcome' = [kind |-> k, input |-> in, response |-> Uncaught(msg)]
  /\ fetches' = [f \in Fetches |->
                   IF fetches[f].stage = "handling" THEN NoFetch ELSE fetches[f]]
  /\ pc' = [q \in Requests |-> "idle"]
  /\ kind' = [q \in Requests |-> ""]
  /\ input' = [q \in Requests |-> NoInput]
  /\ snapshot' = [q \in Requests |-> NoSnapshot]
  /\ freshEvents' = [q \in Requests |-> << >>]
  /\ event' = [q \in Requests |-> NoEvent]
  /\ message' = [q \in Requests |-> << >>]
  /\ RolledBack

Survives(r, msg, rolledBack) ==
  /\ process' = "warned"
  /\ Ends(r, Uncaught(msg))
  /\ IF rolledBack THEN RolledBack ELSE UNCHANGED dbvars

\* a runtime treats every unhandled rejection in the same way
Rejects(r, msg, rolledBack) ==
  \/ process = "running" /\ Exits(kind[r], input[r], msg)
  \/ Survives(r, msg, rolledBack)

\* the statement of the first await of a handler is rejected: the handler
\* of request (k, in) throws before it holds anything
Refuses(k, in, msg) ==
  \/ process = "running" /\ Exits(k, in, msg)
  \/ /\ process' = "warned"
     /\ outcome' = [kind |-> k, input |-> in, response |-> Uncaught(msg)]
     /\ UNCHANGED <<dbvars, locals, fetches>>

(***************************************************************************)
(* POST /event: storeEvent (operations.ts 96-150).  Each action is the     *)
(* statement one await waits for, with the synchronous code that follows   *)
(* it up to the next await.                                                *)
(***************************************************************************)
\* lines 96-99, and the db.get of loadLastState (42-57) for a valid payload
StoreEventFor(f, r, payload, most) ==
  /\ process # "exited"
  /\ pc[r] = "idle"
  /\ IF ~isValidEventPayload(payload)
     THEN /\ Answers(f, "store", payload, Error(<<"Invalid event payload">>))
          /\ UNCHANGED submits
     ELSE /\ submits < most
          /\ submits' = submits + 1
          /\ kind' = [kind EXCEPT ![r] = "store"]
          /\ input' = [input EXCEPT ![r] = payload]
          /\ snapshot' = [snapshot EXCEPT ![r] = latestSnapshot(snapshots)]
          /\ pc' = [pc EXCEPT ![r] = "load_events"]
          /\ Takes(f, r)
          /\ outcome' = NoOutcome
          /\ UNCHANGED <<freshEvents, event, message>>
  /\ UNCHANGED <<dbvars, accepted>>
  /\ UNCHANGED apart

\* the submission of another client
StoreEvent(r, payload) == StoreEventFor(0, r, payload, MaxSubmits)

\* line 101 when the database is locked by another connection: the db.get
\* of loadLastState (43-46) rejects, and storeEvent throws before BEGIN
StoreEventFails(r, payload) ==
  /\ process # "exited"
  /\ pc[r] = "idle"
  /\ isValidEventPayload(payload)
  /\ Refuses("store", payload, SqliteBusy)
  /\ UNCHANGED <<submits, accepted, clientSnapshot, args, ret>>

\* mutant: a payload version above the reconstructed one is rejected
StoreLoadEventsRejectsAhead(r) ==
  /\ pc[r] = "load_events" /\ kind[r] = "store"
  /\ LET state == foldEvents(events, snapshot[r])
     IN IF ~state.ok
        THEN Ends(r, Error(state.message))
        ELSE IF input[r].version.n > state.version * input[r].version.d
        THEN Ends(r, Error(<<"Version ahead">>))
        ELSE /\ snapshot' = [snapshot EXCEPT ![r] = Snap(state.version, state.doc)]
             /\ pc' = [pc EXCEPT ![r] =
                         IF NumLess(input[r].version, state.version)
                         THEN "fresh_events" ELSE "begin"]
             /\ UNCHANGED <<kind, input, freshEvents, event, message, outcome, fetches>>
  /\ UNCHANGED <<dbvars, submits, accepted>>
  /\ UNCHANGED apart

\* loadLastState 58-64, then storeEvent 101-111 up to the next await
StoreLoadEvents(r) ==
  /\ pc[r] = "load_events" /\ kind[r] = "store"
  /\ LET state == foldEvents(events, snapshot[r])
     IN IF ~state.ok
        THEN Ends(r, Error(state.message))
        ELSE /\ snapshot' = [snapshot EXCEPT ![r] = Snap(state.version, state.doc)]
             /\ pc' = [pc EXCEPT ![r] =
                         IF NumLess(input[r].version, state.version)
                         THEN "fresh_events" ELSE "begin"]
             /\ UNCHANGED <<kind, input, freshEvents, event, message, outcome, fetches>>
  /\ UNCHANGED <<dbvars, submits, accepted>>
  /\ UNCHANGED apart

\* line 58 when the database is locked: db.all rejects outside the try of
\* loadLastState, and storeEvent throws before BEGIN
StoreLoadEventsFails(r) ==
  /\ pc[r] = "load_events" /\ kind[r] = "store"
  /\ Rejects(r, SqliteBusy, FALSE)
  /\ UNCHANGED <<submits, accepted, clientSnapshot, args, ret>>

\* line 110
StoreFreshEvents(r) ==
  /\ pc[r] = "fresh_events"
  /\ freshEvents' = [freshEvents EXCEPT ![r] =
                       loadEventsBetween(events, input[r].version, snapshot[r].version)]
  /\ pc' = [pc EXCEPT ![r] = "begin"]
  /\ UNCHANGED <<dbvars, kind, input, snapshot, event, message, outcome, fetches, submits, accepted>>
  /\ UNCHANGED apart

\* line 110 when the database is locked: db.all rejects, uncaught
StoreFreshEventsFails(r) ==
  /\ pc[r] = "fresh_events"
  /\ Rejects(r, SqliteBusy, FALSE)
  /\ UNCHANGED <<submits, accepted, clientSnapshot, args, ret>>

\* line 113: BEGIN inside an open transaction is an SQLite error, which
\* rejects the promise of db.run; nothing in storeEvent catches it
StoreBegin(r) ==
  /\ pc[r] = "begin"
  /\ IF inTxn
     THEN Rejects(r, SqliteError("cannot start a transaction within a transaction"), FALSE)
     ELSE /\ inTxn' = TRUE
          /\ journal' = [events |-> events, snapshots |-> snapshots,
                         sqlite_sequence |-> sqlite_sequence]
          /\ pc' = [pc EXCEPT ![r] = "insert"]
          /\ UNCHANGED <<kind, input, snapshot, freshEvents, event, message, outcome, fetches>>
          /\ UNCHANGED <<events, snapshots, sqlite_sequence, process>>
  /\ UNCHANGED <<submits, accepted, clientSnapshot, args, ret>>

\* lines 114-146 when the INSERT succeeds: the row is appended with the
\* next id, and the event is applied to the reconstructed snapshot
StoreInsert(r) ==
  /\ pc[r] = "insert"
  /\ LET ev == [id |-> lastID, key |-> input[r].key.s, op |-> input[r].op.s,
                value |-> IF input[r].op = Str("DELETE") THEN "" ELSE input[r].value.s]
         applied == applyEvent(snapshot[r], ev)
     IN /\ events' = Append(events, ev)
        /\ sqlite_sequence' = ev.id
        /\ event' = [event EXCEPT ![r] = ev]
        /\ IF ~applied.ok
           THEN /\ message' = [message EXCEPT ![r] = applied.message]
                /\ pc' = [pc EXCEPT ![r] = "rollback"]
                /\ UNCHANGED snapshot
           ELSE /\ snapshot' = [snapshot EXCEPT ![r] = Snap(applied.version, applied.doc)]
                /\ pc' = [pc EXCEPT ![r] =
                            IF applied.version % SnapshotEvery = 0
                            THEN "insert_snapshot" ELSE "commit"]
                /\ UNCHANGED message
  /\ UNCHANGED <<snapshots, inTxn, journal, kind, input, freshEvents, outcome, fetches, submits, accepted>>
  /\ UNCHANGED apart

\* lines 114-123 when the result of the statement has no lastID: the
\* statement has run, so the row is in the table until the ROLLBACK
StoreInsertNoId(r) ==
  /\ pc[r] = "insert"
  /\ events' = Append(events,
        [id |-> lastID, key |-> input[r].key.s, op |-> input[r].op.s,
         value |-> IF input[r].op = Str("DELETE") THEN "" ELSE input[r].value.s])
  /\ sqlite_sequence' = lastID
  /\ message' = [message EXCEPT ![r] = <<"Database error">>]
  /\ pc' = [pc EXCEPT ![r] = "rollback"]
  /\ UNCHANGED <<snapshots, inTxn, journal, kind, input, snapshot, freshEvents, event,
                 outcome, fetches, submits, accepted>>
  /\ UNCHANGED apart

\* line 114 when the storage fails the INSERT: db.run rejects, uncaught
StoreInsertFails(r) ==
  /\ pc[r] = "insert"
  /\ \E failure \in StorageFailures : Rejects(r, failure, failure = SqliteFull)
  /\ UNCHANGED <<submits, accepted, clientSnapshot, args, ret>>

\* mutant: COMMIT where the code says ROLLBACK
StoreRollbackCommits(r) ==
  /\ pc[r] = "rollback"
  /\ inTxn' = FALSE
  /\ journal' = NoJournal
  /\ Ends(r, Error(message[r]))
  /\ UNCHANGED <<events, snapshots, sqlite_sequence, submits, accepted>>
  /\ UNCHANGED apart

\* lines 121-122 and 135-136: ROLLBACK, then the error result
StoreRollback(r) ==
  /\ pc[r] = "rollback"
  /\ IF inTxn
     THEN /\ events' = journal.events
          /\ snapshots' = journal.snapshots
          /\ sqlite_sequence' = journal.sqlite_sequence
          /\ inTxn' = FALSE
          /\ journal' = NoJournal
          /\ Ends(r, Error(message[r]))
          /\ UNCHANGED process
     ELSE Rejects(r, SqliteError("cannot rollback - no transaction is active"), FALSE)
  /\ UNCHANGED <<submits, accepted, clientSnapshot, args, ret>>

\* mutant: the checkpoint is not written
StoreInsertSnapshotSkipped(r) ==
  /\ pc[r] = "insert_snapshot"
  /\ pc' = [pc EXCEPT ![r] = "commit"]
  /\ UNCHANGED <<dbvars, kind, input, snapshot, freshEvents, event, message,
                 outcome, fetches, submits, accepted>>
  /\ UNCHANGED apart

\* lines 141-146 when the INSERT succeeds
StoreInsertSnapshot(r) ==
  /\ pc[r] = "insert_snapshot"
  /\ snapshots' = snapshots \cup
        {[event_id |-> snapshot[r].version, state |-> JSONstringify(snapshot[r].doc)]}
  /\ pc' = [pc EXCEPT ![r] = "commit"]
  /\ UNCHANGED <<events, sqlite_sequence, inTxn, journal,
                 kind, input, snapshot, freshEvents, event, message, outcome, fetches, submits, accepted>>
  /\ UNCHANGED apart

\* line 142 when the storage fails the INSERT: db.run rejects, uncaught
StoreInsertSnapshotFails(r) ==
  /\ pc[r] = "insert_snapshot"
  /\ \E failure \in StorageFailures : Rejects(r, failure, failure = SqliteFull)
  /\ UNCHANGED <<submits, accepted, clientSnapshot, args, ret>>

\* mutant: the success result without the COMMIT
StoreCommitForgotten(r) ==
  /\ pc[r] = "commit"
  /\ Ends(r, Success(freshEvents[r] \o <<event[r]>>))
  /\ accepted' = Append(accepted, event[r])
  /\ UNCHANGED <<dbvars, submits>>
  /\ UNCHANGED apart

\* lines 148-149: COMMIT, then the success result
StoreCommit(r) ==
  /\ pc[r] = "commit"
  /\ IF inTxn
     THEN /\ inTxn' = FALSE
          /\ journal' = NoJournal
          /\ Ends(r, Success(freshEvents[r] \o <<event[r]>>))
          /\ accepted' = Append(accepted, event[r])
          /\ UNCHANGED <<events, snapshots, sqlite_sequence, process>>
     ELSE /\ Rejects(r, SqliteError("cannot commit - no transaction is active"), FALSE)
          /\ UNCHANGED accepted
  /\ UNCHANGED <<submits, clientSnapshot, args, ret>>

\* line 148 when another connection holds a lock: COMMIT rejects, uncaught;
\* the transaction stays open with its rows
StoreCommitFails(r) ==
  /\ pc[r] = "commit"
  /\ inTxn
  /\ Rejects(r, SqliteBusy, FALSE)
  /\ UNCHANGED <<submits, accepted, clientSnapshot, args, ret>>

(***************************************************************************)
(* GET /load (part_000 16-18): loadLastState, two awaits.                  *)
(***************************************************************************)
LoadFor(f, r) ==
  /\ process # "exited"
  /\ pc[r] = "idle"
  /\ kind' = [kind EXCEPT ![r] = "load"]
  /\ snapshot' = [snapshot EXCEPT ![r] = latestSnapshot(snapshots)]
  /\ pc' = [pc EXCEPT ![r] = "load_events"]
  /\ Takes(f, r)
  /\ outcome' = NoOutcome
  /\ UNCHANGED <<dbvars, input, freshEvents, event, message, submits, accepted>>
  /\ UNCHANGED apart

Load(r) == LoadFor(0, r)

\* the db.get of loadLastState (43-46) rejects: the route callback throws
LoadFails(r) ==
  /\ process # "exited"
  /\ pc[r] = "idle"
  /\ Refuses("load", NoInput, SqliteBusy)
  /\ UNCHANGED <<submits, accepted, clientSnapshot, args, ret>>

LoadEvents(r) ==
  /\ pc[r] = "load_events" /\ kind[r] = "load"
  /\ LET state == foldEvents(events, snapshot[r])
     IN Ends(r, IF state.ok THEN SuccessSnapshot(Snap(state.version, state.doc))
                ELSE Error(state.message))
  /\ UNCHANGED <<dbvars, submits, accepted>>
  /\ UNCHANGED apart

\* line 58 when the database is locked: db.all rejects outside the try
LoadEventsFails(r) ==
  /\ pc[r] = "load_events" /\ kind[r] = "load"
  /\ Rejects(r, SqliteBusy, FALSE)
  /\ UNCHANGED <<submits, accepted, clientSnapshot, args, ret>>

(***************************************************************************)
(* GET /sync/:version (part_000 20-25): one await.                         *)
(***************************************************************************)
SyncFor(f, r, version) ==
  /\ process # "exited"
  /\ pc[r] = "idle"
  /\ Answers(f, "sync", [NoInput EXCEPT !.version = Num(version)],
             Success(loadEventsBetween(events, Num(version), 0)))
  /\ UNCHANGED <<dbvars, submits, accepted>>
  /\ UNCHANGED apart

Sync(r, version) == SyncFor(0, r, version)

\* the db.all of loadEventsBetween rejects: the route callback throws
SyncFails(r, version) ==
  /\ process # "exited"
  /\ pc[r] = "idle"
  /\ Refuses("sync", [NoInput EXCEPT !.version = Num(version)], SqliteBusy)
  /\ UNCHANGED <<submits, accepted, clientSnapshot, args, ret>>

(***************************************************************************)
(* The store when the server starts: empty, or the log and the checkpoints *)
(* that n accepted submissions leave behind.                               *)
(***************************************************************************)
InitEvent(i) ==
  IF i % 3 = 1 THEN [id |-> i, op |-> "UPSERT", key |-> "a", value |-> "x"]
  ELSE IF i % 3 = 2 THEN [id |-> i, op |-> "UPSERT", key |-> "b", value |-> "y"]
  ELSE [id |-> i, op |-> "DELETE", key |-> "a", value |-> ""]
InitLog(n) == [i \in 1..n |-> InitEvent(i)]
InitSnapshots(n) ==
  {[event_id |-> v, state |-> JSONstringify(Reduce(InitLog(v), NoSnapshot).doc)] :
      v \in {i \in 1..n : i % SnapshotEvery = 0}}

Started(lengths) ==
  /\ \E n \in lengths :
       /\ events = InitLog(n)
       /\ snapshots = InitSnapshots(n)
       /\ sqlite_sequence = n
  /\ inTxn = FALSE
  /\ journal = NoJournal
  /\ kind = [r \in Requests |-> ""]
  /\ pc = [r \in Requests |-> "idle"]
  /\ input = [r \in Requests |-> NoInput]
  /\ snapshot = [r \in Requests |-> NoSnapshot]
  /\ freshEvents = [r \in Requests |-> << >>]
  /\ event = [r \in Requests |-> NoEvent]
  /\ message = [r \in Requests |-> << >>]
  /\ outcome = NoOutcome
  /\ submits = 0
  /\ accepted = << >>
  /\ clientSnapshot = NoSnapshot
  /\ fetches = [f \in Fetches |-> NoFetch]

InitWith(lengths) ==
  /\ Started(lengths)
  /\ args = NoCall
  /\ ret = NotCalled
  /\ process = "running"

Init == InitWith({0, MaxInit})

\* a request is handled in the lowest free slot (the slots are interchangeable)
Accepts(r) == pc[r] = "idle" /\ \A q \in Requests : q < r => pc[q] # "idle"
Quiet == \A q \in Requests : pc[q] = "idle"

\* the steps of the handlers of POST /event that are suspended at an await
Stores(r) ==
  \/ StoreLoadEvents(r)
  \/ StoreLoadEventsFails(r)
  \/ StoreFreshEvents(r)
  \/ StoreFreshEventsFails(r)
  \/ StoreBegin(r)
  \/ StoreInsert(r)
  \/ StoreInsertNoId(r)
  \/ StoreInsertFails(r)
  \/ StoreRollback(r)
  \/ StoreInsertSnapshot(r)
  \/ StoreInsertSnapshotFails(r)
  \/ StoreCommit(r)
  \/ StoreCommitFails(r)

\* the steps of all handlers
Step(r) ==
  \/ Stores(r)
  \/ LoadEvents(r)
  \/ LoadEventsFails(r)

(***************************************************************************)
(* Spec: requests arrive at any time, so handlers interleave at their      *)
(* awaits.  A client submits and polls at the version it holds: 0 until    *)
(* /load has answered, any version up to the head of the log when others   *)
(* have submitted since, and the head + 1 after it read a row that was     *)
(* rolled back.                                                            *)
(***************************************************************************)
ClientVersions == 0..(MaxId(events) + 1)
ClientNums == {Num(i) : i \in ClientVersions}
OneKey(payloads) == {p \in payloads : p.key = Str("a") /\ p.value # Str("y")}

Next ==
  \E r \in Requests :
    \/ Accepts(r) /\ \E payload \in OneKey(WellFormed(ClientNums)) : StoreEvent(r, payload)
    \/ Accepts(r) /\ \E payload \in OneKey(WellFormed(ClientNums)) : StoreEventFails(r, payload)
    \/ Accepts(r) /\ Load(r)
    \/ Accepts(r) /\ LoadFails(r)
    \/ Accepts(r) /\ \E version \in ClientVersions : Sync(r, version)
    \/ Accepts(r) /\ \E version \in ClientVersions : SyncFails(r, version)
    \/ Step(r)

Spec == Init /\ [][Next]_vars

(***************************************************************************)
(* Serial: a request arrives only when no handler is in flight; request    *)
(* bodies range over every version and every malformed shape.              *)
(***************************************************************************)
OneAtATime(payloads) ==
  \E r \in Requests :
    \/ Quiet /\ Accepts(r) /\ \E payload \in payloads : StoreEvent(r, payload)
    \/ Quiet /\ Accepts(r) /\ \E payload \in payloads : StoreEventFails(r, payload)
    \/ Quiet /\ Accepts(r) /\ Load(r)
    \/ Quiet /\ Accepts(r) /\ LoadFails(r)
    \/ Quiet /\ Accepts(r) /\ \E version \in ClientVersions : Sync(r, version)
    \/ Quiet /\ Accepts(r) /\ \E version \in ClientVersions : SyncFails(r, version)
    \/ Step(r)

SerialNext == OneAtATime(WellFormed(NumVersions(MaxId(events) + 1)) \cup Malformed)

Serial == Init /\ [][SerialNext]_vars

(***************************************************************************)
(* SerialCache: requests one at a time, submissions for one key at every   *)
(* version a client holds, and an operator who deletes checkpoint rows     *)
(* (the snapshots table is a cache the log can rebuild).                   *)
(***************************************************************************)
DeleteSnapshot(row) ==
  /\ row \in snapshots
  /\ snapshots' = snapshots \ {row}
  /\ UNCHANGED <<events, sqlite_sequence, inTxn, journal, locals, outcome, fetches, submits, accepted>>
  /\ UNCHANGED apart

SerialCacheNext ==
  \/ OneAtATime(OneKey(WellFormed(ClientNums)))
  \/ ~inTxn /\ \E row \in snapshots : DeleteSnapshot(row)

\* the longest initial log is one event short of the second checkpoint
SerialCache ==
  InitWith({0, MaxInit, 2 * SnapshotEvery - 1}) /\ [][SerialCacheNext]_vars
(***************************************************************************)
(* Crowded: MaxCrowd submissions that interleave, on a store that is three *)
(* events short of its first checkpoint.  Clients delete keys, at the      *)
(* versions they hold.                                                     *)
(***************************************************************************)
Deletes ==
  {[version |-> Num(i), op |-> Str("DELETE"), key |-> Str(k), value |-> Undefined] :
      i \in ClientVersions, k \in Keys}

CrowdedNext ==
  \E r \in Requests :
    \/ Accepts(r) /\ \E payload \in Deletes : StoreEventFor(0, r, payload, MaxCrowd)
    \/ Accepts(r) /\ \E payload \in Deletes : StoreEventFails(r, payload)
    \/ Stores(r)

Crowded == InitWith({SnapshotEvery - 3}) /\ [][CrowdedNext]_vars

(***************************************************************************)
(* Damaged: the server is started on a database file of seven events and   *)
(* the checkpoint of the fifth, from which up to MaxMissing event rows and *)
(* maybe the checkpoint row are missing; it serves requests one at a time. *)
(***************************************************************************)
RECURSIVE SubLogs(_)
SubLogs(log) ==
  IF log = << >> THEN {<< >>}
  ELSE LET rest == SubLogs(Tail(log))
       IN rest \cup {<<Head(log)>> \o l : l \in rest}

DamagedInit ==
  /\ \E n \in {SnapshotEvery + 2} :
       /\ events \in {log \in SubLogs(InitLog(n)) : Len(log) >= n - MaxMissing}
       /\ snapshots \in SUBSET InitSnapshots(n)
       /\ sqlite_sequence = n
  /\ inTxn = FALSE
  /\ journal = NoJournal
  /\ kind = [r \in Requests |-> ""]
  /\ pc = [r \in Requests |-> "idle"]
  /\ input = [r \in Requests |-> NoInput]
  /\ snapshot = [r \in Requests |-> NoSnapshot]
  /\ freshEvents = [r \in Requests |-> << >>]
  /\ event = [r \in Requests |-> NoEvent]
  /\ message = [r \in Requests |-> << >>]
  /\ outcome = NoOutcome
  /\ submits = 0
  /\ accepted = << >>
  /\ clientSnapshot = NoSnapshot
  /\ fetches = [f \in Fetches |-> NoFetch]
  /\ args = NoCall
  /\ ret = NotCalled
  /\ process = "running"

DamagedNext == OneAtATime(OneKey(WellFormed(ClientNums)))

Damaged == DamagedInit /\ [][DamagedNext]_vars

(***************************************************************************)
(* The browser client (index.tsx).  App holds `snapshot`; every callback   *)
(* that calls fetch() closes over the `snapshot` of the render in which it *)
(* was created, and resumes with that value when the response arrives.     *)
(***************************************************************************)
Sent(k, closure, payload) ==
  [stage |-> "sent", kind |-> k, closure |-> closure, payload |-> payload,
   slot |-> 0, response |-> NoResponse]
Unsent == Cardinality({f \in Fetches : fetches[f].stage = "sent" /\ fetches[f].kind = "submit"})
serverVars == <<events, snapshots, sqlite_sequence, inTxn, journal,
                kind, pc, input, snapshot, freshEvents, event, message,
                outcome, submits, accepted, process>>

\* event() (lines 8-14): the body of POST /event
EventBody(op, version, key, value) ==
  [version |-> Num(version), op |-> Str(op), key |-> Str(key),
   value |-> IF op = "UPSERT" THEN Str(value) ELSE Undefined]

\* the click of a button calls event(), which calls fetch("/event")
Clicks(f, body) ==
  /\ fetches[f].stage = "none"
  /\ submits + Unsent < MaxSubmits
  /\ fetches' = [fetches EXCEPT ![f] = Sent("submit", clientSnapshot, body)]
  /\ UNCHANGED <<serverVars, clientSnapshot, args, ret>>

\* Item.runUpdate (lines 55-56) of the item rendered for key k
runUpdate(f, k, value) ==
  /\ k \in DOMAIN clientSnapshot.doc
  /\ Clicks(f, EventBody("UPSERT", clientSnapshot.version, k, value))

\* Item.runDelete (lines 64-65)
runDelete(f, k) ==
  /\ k \in DOMAIN clientSnapshot.doc
  /\ Clicks(f, EventBody("DELETE", clientSnapshot.version, k, ""))

\* App.runInsert (lines 117-121); the key and the value are not empty
runInsert(f, insertKey, insertVal) ==
  /\ insertKey # "" /\ insertVal # ""
  /\ Clicks(f, EventBody("UPSERT", clientSnapshot.version, insertKey, insertVal))

\* a tick of the 5-second interval (lines 106-107)
Tick(f) ==
  /\ fetches[f].stage = "none"
  /\ fetches' = [fetches EXCEPT ![f] =
        Sent("poll", clientSnapshot, [NoInput EXCEPT !.version = Num(clientSnapshot.version)])]
  /\ UNCHANGED <<serverVars, clientSnapshot, args, ret>>

\* the requests of the client reach the routes
PostEvent(f, r) ==
  /\ fetches[f].stage = "sent" /\ fetches[f].kind = "submit"
  /\ StoreEventFor(f, r, fetches[f].payload, MaxSubmits)
GetLoad(f, r) ==
  /\ fetches[f].stage = "sent" /\ fetches[f].kind = "load"
  /\ LoadFor(f, r)
GetSync(f, r) ==
  /\ fetches[f].stage = "sent" /\ fetches[f].kind = "poll"
  /\ SyncFor(f, r, fetches[f].payload.version.n)

\* what a callback sets after `await`: events.reduce(applyEvent, snapshot)
\* on the snapshot it closed over; a throw leaves the state as it is
Folded(evs, closure) ==
  LET state == Reduce(evs, closure)
  IN IF state.ok THEN Snap(state.version, state.doc) ELSE clientSnapshot

\* lines 94-101
LoadResumes(f) ==
  /\ fetches[f].stage = "answered" /\ fetches[f].kind = "load"
  /\ clientSnapshot' = IF fetches[f].response.status = "error" THEN clientSnapshot
                       ELSE fetches[f].response.snapshot
  /\ fetches' = [fetches EXCEPT ![f] = NoFetch]
  /\ UNCHANGED <<serverVars, args, ret>>

\* lines 108-114
PollResumes(f) ==
  /\ fetches[f].stage = "answered" /\ fetches[f].kind = "poll"
  /\ clientSnapshot' = IF fetches[f].response.status = "error" THEN clientSnapshot
                       ELSE Folded(fetches[f].response.events, fetches[f].closure)
  /\ fetches' = [fetches EXCEPT ![f] = NoFetch]
  /\ UNCHANGED <<serverVars, args, ret>>

\* lines 16-22, then 57-61, 66-70 or 122-128: event() returns [] for an
\* error result, and the caller folds what it returns
SubmitResumes(f) ==
  /\ fetches[f].stage = "answered" /\ fetches[f].kind = "submit"
  /\ clientSnapshot' =
       Folded(IF fetches[f].response.status = "error" THEN << >>
              ELSE fetches[f].response.events, fetches[f].closure)
  /\ fetches' = [fetches EXCEPT ![f] = NoFetch]
  /\ UNCHANGED <<serverVars, args, ret>>

\* a request meets a server that has exited: fetch() rejects, and nothing
\* in the callback runs after its `await`
FetchFails(f) ==
  /\ fetches[f].stage = "sent" /\ process = "exited"
  /\ fetches' = [fetches EXCEPT ![f] = NoFetch]
  /\ UNCHANGED <<serverVars, clientSnapshot, args, ret>>

\* the steps of the handlers when the storage does not fail
Runs(r) ==
  \/ StoreLoadEvents(r)
  \/ StoreFreshEvents(r)
  \/ StoreBegin(r)
  \/ StoreInsert(r)
  \/ StoreRollback(r)
  \/ StoreInsertSnapshot(r)
  \/ StoreCommit(r)
  \/ LoadEvents(r)

(***************************************************************************)
(* Browser: one browser client and the server.  The page has been opened,  *)
(* so the fetch of /load is on its way; the storage does not fail.         *)
(***************************************************************************)
BrowserInit ==
  /\ \E n \in {0, MaxInit} :
       /\ events = InitLog(n)
       /\ snapshots = InitSnapshots(n)
       /\ sqlite_sequence = n
  /\ inTxn = FALSE
  /\ journal = NoJournal
  /\ kind = [r \in Requests |-> ""]
  /\ pc = [r \in Requests |-> "idle"]
  /\ input = [r \in Requests |-> NoInput]
  /\ snapshot = [r \in Requests |-> NoSnapshot]
  /\ freshEvents = [r \in Requests |-> << >>]
  /\ event = [r \in Requests |-> NoEvent]
  /\ message = [r \in Requests |-> << >>]
  /\ outcome = NoOutcome
  /\ submits = 0
  /\ accepted = << >>
  /\ clientSnapshot = NoSnapshot
  /\ fetches = [f \in Fetches |-> IF f = 1 THEN Sent("load", NoSnapshot, NoInput) ELSE NoFetch]
  /\ args = NoCall
  /\ ret = NotCalled
  /\ process = "running"

ClientNext ==
  \E f \in Fetches :
    \/ \E k \in Keys, v \in Values : runUpdate(f, k, v)
    \/ \E k \in Keys : runDelete(f, k)
    \/ \E k \in Keys, v \in Values : runInsert(f, k, v)
    \/ Tick(f)
    \/ LoadResumes(f)
    \/ PollResumes(f)
    \/ SubmitResumes(f)
    \/ FetchFails(f)

ServerNext ==
  \E r \in Requests :
    \/ \E f \in Fetches : Accepts(r) /\ PostEvent(f, r)
    \/ \E f \in Fetches : Accepts(r) /\ GetLoad(f, r)
    \/ \E f \in Fetches : Accepts(r) /\ GetSync(f, r)
    \/ Runs(r)

BrowserNext == ClientNext \/ ServerNext

Browser == BrowserInit /\ [][BrowserNext]_vars

(***************************************************************************)
(* Polling: Browser with the scheduling the code relies on.  The event     *)
(* loop runs every continuation that is ready, a request that was sent     *)
(* reaches its route, a response that was sent resumes the callback that   *)
(* awaits it, and setInterval keeps ticking.  Nothing makes the user click.*)
(***************************************************************************)
Arrives(f) ==
  \E r \in Requests : Accepts(r) /\ (PostEvent(f, r) \/ GetLoad(f, r) \/ GetSync(f, r))
Resumes(f) == LoadResumes(f) \/ PollResumes(f) \/ SubmitResumes(f) \/ FetchFails(f)

Polling ==
  /\ BrowserInit /\ [][BrowserNext]_vars
  /\ \A r \in Requests : WF_vars(Runs(r))
  /\ \A f \in Fetches : WF_vars(Arrives(f))
  /\ \A f \in Fetches : WF_vars(Resumes(f))
  /\ WF_vars(\E f \in Fetches : Tick(f))

(***************************************************************************)
(* Pure: one call of a pure function of operations.ts with arguments from  *)
(* bounded sets: applyEvent, events.reduce(applyEvent, snapshot), or the   *)
(* query of loadEventsBetween on a given events table.                     *)
(***************************************************************************)
AllDocs == UNION {[D -> Values] : D \in SUBSET Keys}
AllSnapshots == {Snap(v, doc) : v \in 0..MaxVersion, doc \in AllDocs}
AllEvents ==
  {[id |-> i, op |-> "UPSERT", key |-> k, value |-> v] :
      i \in 0..(MaxVersion + 2), k \in AllKeys, v \in Values}
  \cup {[id |-> i, op |-> "DELETE", key |-> k, value |-> ""] :
      i \in 0..(MaxVersion + 2), k \in AllKeys}

\* loadEventsBetween is called with or without its third argument `high`;
\* without it the parameter takes its default 0
Calls ==
  {[fn |-> "applyEvent", snapshot |-> sn, event |-> e] : sn \in AllSnapshots, e \in AllEvents}
  \cup {[fn |-> "reduce", snapshot |-> sn, events |-> <<e1, e2>>] :
           sn \in AllSnapshots, e1 \in AllEvents, e2 \in AllEvents}
  \cup {[fn |-> "loadEventsBetween", events |-> InitLog(n), low |-> low, high |-> high,
          given |-> TRUE] :
           n \in 0..MaxInit, low \in NumVersions(MaxInit), high \in 0..(MaxInit + 1)}
  \cup {[fn |-> "loadEventsBetween", events |-> InitLog(n), low |-> low, high |-> 0,
          given |-> FALSE] :
           n \in 0..MaxInit, low \in NumVersions(MaxInit)}

PureInit ==
  /\ Started({0})
  /\ args \in Calls
  /\ ret = NotCalled
  /\ process = "running"

CallApplyEvent ==
  /\ args.fn = "applyEvent" /\ ~ret.called
  /\ ret' = Called(applyEvent(args.snapshot, args.event))
  /\ UNCHANGED <<dbvars, locals, outcome, submits, accepted, clientSnapshot, fetches, args, process>>

CallReduce ==
  /\ args.fn = "reduce" /\ ~ret.called
  /\ ret' = Called(Reduce(args.events, args.snapshot))
  /\ UNCHANGED <<dbvars, locals, outcome, submits, accepted, clientSnapshot, fetches, args, process>>

CallLoadEventsBetween ==
  /\ args.fn = "loadEventsBetween" /\ ~ret.called
  /\ ret' = Called(loadEventsBetween(args.events, args.low, args.high))
  /\ UNCHANGED <<dbvars, locals, outcome, submits, accepted, clientSnapshot, fetches, args, process>>

PureNext == CallApplyEvent \/ CallReduce \/ CallLoadEventsBetween

Pure == PureInit /\ [][PureNext]_vars

(***************************************************************************)
(* Notions the properties share.                                           *)
(***************************************************************************)
\* the committed event log: what the tables hold once an open transaction
\* is rolled back
Committed == IF inTxn THEN journal.events ELSE events
Last(seq) == seq[Len(seq)]
IsPrefix(s, t) == Len(s) <= Len(t) /\ \A i \in 1..Len(s) : t[i] = s[i]
\* the document as of version v of a log: its events 1..v folded from the
\* empty document
FoldLog(log, v) == Reduce(SubSeq(log, 1, v), NoSnapshot)
IsOrderingError(msg) == Len(msg) = 4 /\ msg[1] = "Can not apply event"
\* the request handled last was a submission that returned success
Succeeded == outcome.kind = "store" /\ outcome.response.status = "success"

(***************************************************************************)
(* C1  Append monotonicity.  The committed log is the log the server       *)
(* started with followed by exactly the accepted events in acceptance      *)
(* order, and the event at position i has id i: so the accepted events of  *)
(* an initially empty store have the ids 1, 2, 3, ... without gap or       *)
(* repeat, whatever versions the payloads carried.                         *)
(***************************************************************************)
AppendMonotonicity ==
  LET n == Len(Committed) - Len(accepted)
  IN /\ n \in {0, MaxInit}
     /\ Committed = InitLog(n) \o accepted
     /\ \A i \in 1..Len(accepted) : accepted[i].id = n + i

\* two submissions were accepted by a store that started empty, the second
\* with a payload version that is not the current one
AppendMonotonicityWitness ==
  /\ Len(accepted) >= 2
  /\ accepted[1].id = 1
  /\ Succeeded /\ outcome.input.version # Num(Last(accepted).id - 1)
(***************************************************************************)
(* C3  Submissions are serialized.  The id the log assigns to a submission *)
(* is the version the submission reconstructed plus 1, and no submission   *)
(* is rejected with an ordering (reconciliation) error.                    *)
(***************************************************************************)
SubmissionsSerialized ==
  /\ \A r \in Requests :
       /\ pc[r] \in {"insert_snapshot", "commit"} => event[r].id = snapshot[r].version
       /\ pc[r] = "rollback" /\ event[r] # NoEvent => event[r].id = snapshot[r].version + 1
       /\ ~IsOrderingError(message[r])
  /\ ~IsOrderingError(outcome.response.message)

(***************************************************************************)
(* C4  Read isolation.  What a polling read returned is part of the log    *)
(* from then on: every event a /sync response holds is the row of that id, *)
(* and the snapshot a /load response holds is the fold of the first        *)
(* `version` rows.  A read that saw an INSERT which was rolled back later  *)
(* breaks this.                                                            *)
(***************************************************************************)
ReadIsIn(log) ==
  outcome.response.status = "success" =>
    /\ outcome.kind = "sync" =>
         \A i \in 1..Len(outcome.response.events) :
           LET e == outcome.response.events[i]
           IN e.id <= Len(log) /\ log[e.id] = e
    /\ outcome.kind = "load" =>
         LET s == outcome.response.snapshot
             f == FoldLog(log, s.version)
         IN s.version <= Len(log) /\ f.ok /\ Snap(f.version, f.doc) = s
ReadIsolation == [][ReadIsIn(events) /\ ReadIsIn(events')]_vars

(***************************************************************************)
(* C5  Accepted events are durable and immutable.  A step never removes or *)
(* changes a committed row (the committed log only grows at its end), and  *)
(* when storeEvent returns success the accepted event is the committed row *)
(* of its id: so it is that row in every later state.                      *)
(***************************************************************************)
AcceptedDurable ==
  [][ /\ IsPrefix(Committed, Committed')
      /\ \A r \in Requests :
           pc[r] = "commit" /\ pc'[r] = "idle" /\ outcome'.response.status = "success" =>
             LET e == Last(outcome'.response.events)
             IN e.id <= Len(Committed') /\ Committed'[e.id] = e
      /\ \A i \in 1..Len(accepted) :
           accepted[i].id <= Len(events') /\ events'[accepted[i].id] = accepted[i] ]_vars

\* an accepted event is in the log after a later submission was rolled back
AcceptedDurableWitness ==
  /\ accepted # << >>
  /\ outcome.kind = "store" /\ IsOrderingError(outcome.response.message)
  /\ Committed[accepted[1].id] = accepted[1]

(***************************************************************************)
(* C9  Storage failures abort cleanly.  A submission whose event INSERT or *)
(* checkpoint INSERT failed does not throw: it returns an error result,    *)
(* and it leaves no transaction open.                                      *)
(***************************************************************************)
InsertFailed(r) == StoreInsertFails(r) \/ StoreInsertSnapshotFails(r)
StorageFailuresAbortCleanly ==
  [][ \A r \in Requests :
        InsertFailed(r) => /\ outcome'.response.status = "error"
                           /\ ~inTxn' ]_vars

(***************************************************************************)
(* C2  Catch-up completeness.  For a success result whose payload version  *)
(* is below the reconstructed version (the accepted id minus 1): the       *)
(* events returned are the log rows with payload.version < id <= current   *)
(* in id order followed by the accepted event, and folding them onto the   *)
(* document as of payload.version gives the version and the document of    *)
(* the server after the commit.                                            *)
(***************************************************************************)
CatchUpCompleteness ==
  LET evs == outcome.response.events
      pv == outcome.input.version
      current == Last(evs).id - 1
  IN Quiet /\ Succeeded /\ NumLess(pv, current) =>
       /\ evs = SelectSeq(events, LAMBDA e : IntGreater(e.id, pv) /\ e.id <= current)
                  \o <<Last(evs)>>
       /\ IsInteger(pv) /\ pv.n >= 0
       /\ LET stale == FoldLog(events, pv.n)
              folded == Reduce(evs, Snap(pv.n, stale.doc))
              server == FoldLog(events, Len(events))
          IN /\ folded.ok
             /\ folded.version = Len(events)
             /\ folded.doc = server.doc

(***************************************************************************)
(* C6  Replay determinism, snapshots being a disposable cache.  In every   *)
(* state that submissions have left behind (no transaction is open),       *)
(* loadLastState gives the version and the document of the whole log       *)
(* folded from {version: 0, doc: {}}, whichever checkpoint rows exist; and *)
(* so does the result a /load request has returned.                        *)
(***************************************************************************)
WholeLog == FoldLog(events, Len(events))
ReplayDeterminism ==
  /\ WholeLog.ok
  /\ ~inTxn =>
       loadLastState(events, snapshots) = SuccessSnapshot(Snap(Len(events), WholeLog.doc))
  /\ Quiet /\ outcome.kind = "load" /\ outcome.response.status # "thrown" =>
       outcome.response = SuccessSnapshot(Snap(Len(events), WholeLog.doc))

(***************************************************************************)
(* C7  Version validation.  A submission whose version is not a            *)
(* non-negative integer is rejected at once with the validation error (it  *)
(* never reaches the database).                                            *)
(***************************************************************************)
IsVersion(v) == TypeOf(v) = "number" /\ IsInteger(v) /\ v.n >= 0
VersionValidation ==
  /\ \A r \in Requests : kind[r] = "store" => IsVersion(input[r].version)
  /\ outcome.kind = "store" /\ ~IsVersion(outcome.input.version) =>
       outcome.response = Error(<<"Invalid event payload">>)

(***************************************************************************)
(* C8  Invalid payloads change nothing.  The call of storeEvent with a     *)
(* DELETE without a string key, an UPSERT without a string key or value,   *)
(* or another op returns an error in the same step, and the tables, the    *)
(* AUTOINCREMENT counter and the transaction state are as before it.       *)
(***************************************************************************)
BadShape(ev) ==
  \/ ev.op = Str("DELETE") /\ TypeOf(ev.key) # "string"
  \/ ev.op = Str("UPSERT") /\ (TypeOf(ev.key) # "string" \/ TypeOf(ev.value) # "string")
  \/ ev.op \notin {Str("UPSERT"), Str("DELETE")}
InvalidPayloadsChangeNothing ==
  [][ /\ \A r \in Requests :
           pc[r] = "idle" /\ pc'[r] # "idle" /\ kind'[r] = "store" => ~BadShape(input'[r])
      /\ outcome' # outcome /\ outcome'.kind = "store" /\ BadShape(outcome'.input) =>
           /\ outcome'.response.status = "error"
           /\ UNCHANGED <<events, snapshots, sqlite_sequence, inTxn, journal>> ]_vars

\* a DELETE without key was rejected by a store that holds events
InvalidPayloadsChangeNothingWitness ==
  /\ outcome.kind = "store"
  /\ outcome.input.op = Str("DELETE") /\ outcome.input.key = Undefined
  /\ outcome.response.status = "error"
  /\ accepted # << >>

(***************************************************************************)
(* C10 Every success response is fold-ready.  The events of a success      *)
(* result have the consecutive ids payload.version + 1, + 2, ..., so that  *)
(* folding them onto a snapshot at payload.version raises no ordering      *)
(* error.                                                                  *)
(***************************************************************************)
FoldReady ==
  LET evs == outcome.response.events
      pv == outcome.input.version
  IN Succeeded =>
       /\ \A i \in 1..Len(evs) : evs[i].id * pv.d = pv.n + i * pv.d
       /\ IsInteger(pv) /\ Reduce(evs, Snap(pv.n, EmptyDoc)).ok

(***************************************************************************)
(* C11 Apply precondition.  applyEvent(snapshot, event) throws the         *)
(* ordering error when event.id is not snapshot.version + 1; otherwise it  *)
(* returns the snapshot of version snapshot.version + 1 whose document is  *)
(* the input document except at event.key, which holds event.value after   *)
(* an UPSERT and is absent after a DELETE.                                 *)
(***************************************************************************)
ApplyPrecondition ==
  args.fn = "applyEvent" /\ ret.called =>
    LET sn == args.snapshot
        e == args.event
        out == ret.value
    IN IF e.id # sn.version + 1
       THEN ~out.ok /\ out.message = CanNotApply(e.id, sn.version)
       ELSE /\ out.ok
            /\ out.version = sn.version + 1
            /\ \A k \in (DOMAIN sn.doc \cup DOMAIN out.doc) \ {e.key} :
                 k \in DOMAIN sn.doc /\ k \in DOMAIN out.doc /\ out.doc[k] = sn.doc[k]
            /\ e.op = "UPSERT" => e.key \in DOMAIN out.doc /\ out.doc[e.key] = e.value
            /\ e.op = "DELETE" => e.key \notin DOMAIN out.doc

(***************************************************************************)
(* C12 Last-writer-wins.  The document the server reconstructs from the    *)
(* committed log (the initial log followed by the accepted events) maps    *)
(* each key to the value of the last UPSERT of that key, and has no entry  *)
(* when the last event of the key is a DELETE or there is none; the        *)
(* accepted event carries op, key and value as submitted; and a valid      *)
(* submission, whatever its version, is never answered with an ordering    *)
(* or validation error (only a storage failure rejects it).                *)
(***************************************************************************)
CommittedSnapshots == IF inTxn THEN journal.snapshots ELSE snapshots
LastWriterWins ==
  LET log == Committed
      state == loadLastState(log, CommittedSnapshots)
  IN /\ log = InitLog(Len(log) - Len(accepted)) \o accepted
     /\ state.status = "success"
     /\ \A k \in AllKeys :
          LET writes == SelectSeq(log, LAMBDA e : e.key = k)
          IN IF writes = << >> \/ Last(writes).op = "DELETE"
             THEN k \notin DOMAIN state.snapshot.doc
             ELSE k \in DOMAIN state.snapshot.doc
                    /\ state.snapshot.doc[k] = Last(writes).value
     /\ Succeeded =>
          LET e == Last(outcome.response.events)
              in == outcome.input
          IN /\ e = Last(accepted)
             /\ e.op = in.op.s /\ e.key = in.key.s
             /\ e.value = (IF in.op = Str("DELETE") THEN "" ELSE in.value.s)
     /\ outcome.kind = "store" /\ isValidEventPayload(outcome.input)
          /\ outcome.response.status = "error" =>
            outcome.response.message = <<"Database error">>

(***************************************************************************)
(* C13 Client-ahead submissions are accepted.  With requests served one at *)
(* a time: a valid payload whose version is above the current version is   *)
(* never rejected for it (only a storage failure rejects it), and its      *)
(* success result holds the accepted event alone, which is the payload's   *)
(* op, key and value appended with the id current version + 1.             *)
(***************************************************************************)
Ahead(pv, current) == pv.n > current * pv.d
ClientAheadAccepted ==
  LET in == outcome.input
      res == outcome.response
  IN Quiet /\ outcome.kind = "store" /\ isValidEventPayload(in) =>
       /\ res.status = "error" /\ Ahead(in.version, Len(Committed)) =>
            res.message = <<"Database error">>
       /\ res.status = "success" /\ Ahead(in.version, Len(Committed) - 1) =>
            /\ res.events = <<Last(Committed)>>
            /\ Last(Committed) =
                 [id |-> Len(Committed), key |-> in.key.s, op |-> in.op.s,
                  value |-> IF in.op = Str("DELETE") THEN "" ELSE in.value.s]
            /\ Committed = InitLog(Len(Committed) - Len(accepted)) \o accepted

\* a store that holds MaxInit events has accepted a submission at version
\* MaxInit + 1
ClientAheadAcceptedWitness ==
  /\ Quiet /\ Succeeded
  /\ outcome.input.version = Num(MaxInit + 1)
  /\ Len(accepted) = 1 /\ accepted[1].id = MaxInit + 1

(***************************************************************************)
(* C14 DELETE idempotence.  applyEvent of a DELETE (with the next id) for  *)
(* a key the document does not hold returns the same document at the next  *)
(* version; and folding two consecutive DELETEs of one key gives the       *)
(* document that applying the first alone gives.                           *)
(***************************************************************************)
DeleteIdempotence ==
  /\ args.fn = "applyEvent" /\ ret.called
       /\ args.event.op = "DELETE" /\ args.event.id = args.snapshot.version + 1
       /\ args.event.key \notin DOMAIN args.snapshot.doc =>
         /\ ret.value.ok
         /\ ret.value.doc = args.snapshot.doc
         /\ ret.value.version = args.snapshot.version + 1
  /\ args.fn = "reduce" /\ ret.called
       /\ args.events[1].op = "DELETE" /\ args.events[2].op = "DELETE"
       /\ args.events[1].key = args.events[2].key
       /\ args.events[1].id = args.snapshot.version + 1
       /\ args.events[2].id = args.snapshot.version + 2 =>
         /\ ret.value.ok
         /\ ret.value.version = args.snapshot.version + 2
         /\ ret.value.doc = applyEvent(args.snapshot, args.events[1]).doc
         /\ ret.value.doc = [x \in DOMAIN args.snapshot.doc \ {args.events[1].key} |->
                               args.snapshot.doc[x]]

\* two consecutive DELETEs of a key were folded onto a document that held
\* the key and another one
DeleteIdempotenceWitness ==
  /\ args.fn = "reduce" /\ ret.called /\ ret.value.ok
  /\ args.events[1].op = "DELETE" /\ args.events[2].op = "DELETE"
  /\ args.events[1].key = args.events[2].key
  /\ DOMAIN args.snapshot.doc = Keys
  /\ DOMAIN ret.value.doc = Keys \ {args.events[1].key}

(***************************************************************************)
(* C15 Snapshot records are correct checkpoints.  In every state, each row *)
(* (event_id, state) of table snapshots has an event with id event_id in   *)
(* the log, its state is the document of the log events 1..event_id folded *)
(* from the empty document, and of two rows the later state is the earlier *)
(* one with the events between them applied.                               *)
(***************************************************************************)
SnapshotsAreCheckpoints ==
  /\ \A row \in snapshots :
       /\ \E i \in 1..Len(events) : events[i].id = row.event_id
       /\ LET f == Reduce(SelectSeq(events, LAMBDA e : e.id <= row.event_id), NoSnapshot)
          IN f.ok /\ f.version = row.event_id /\ row.state = JSONstringify(f.doc)
  /\ \A s1 \in snapshots : \A s2 \in snapshots :
       s1.event_id < s2.event_id =>
         LET f == Reduce(SelectSeq(events, LAMBDA e : e.id > s1.event_id /\ e.id <= s2.event_id),
                         Snap(s1.event_id, JSONparse(s1.state)))
         IN f.ok /\ f.version = s2.event_id /\ JSONstringify(f.doc) = s2.state

(***************************************************************************)
(* C16 Checkpoint cadence.  The transaction of a successful storeEvent     *)
(* adds one row to table snapshots, with event_id the id of the accepted   *)
(* event, when that id is a multiple of 5, and no row otherwise; so the    *)
(* committed rows have exactly the event_ids 5, 10, ... up to the length   *)
(* of the committed log.                                                   *)
(***************************************************************************)
CadenceKept ==
  {row.event_id : row \in CommittedSnapshots} =
    {i \in 1..Len(Committed) : i % SnapshotEvery = 0}
CheckpointCadence ==
  [][ /\ CadenceKept /\ CadenceKept'
      /\ \A r \in Requests :
           pc[r] = "commit" /\ pc'[r] = "idle" /\ outcome'.response.status = "success" =>
             LET e == Last(outcome'.response.events)
                 written == snapshots' \ journal.snapshots
             IN IF e.id % SnapshotEvery = 0
                THEN \E row \in written : written = {row} /\ row.event_id = e.id
                ELSE written = {} ]_vars

\* the fifth event was accepted and its checkpoint is committed
CheckpointCadenceWitness ==
  /\ Succeeded /\ ~inTxn
  /\ Last(accepted).id = SnapshotEvery
  /\ \E row \in snapshots : row.event_id = SnapshotEvery

(***************************************************************************)
(* C17 Range contract.  loadEventsBetween(low, high) returns the events of *)
(* the table with low < id <= high when `high` is given (so none when high *)
(* is 0 or high <= low), those with low < id when it is omitted, and       *)
(* always in ascending id order.                                           *)
(***************************************************************************)
RangeContract ==
  args.fn = "loadEventsBetween" /\ ret.called =>
    /\ args.given =>
         ret.value = SelectSeq(args.events,
                               LAMBDA e : IntGreater(e.id, args.low) /\ e.id <= args.high)
    /\ ~args.given =>
         ret.value = SelectSeq(args.events, LAMBDA e : IntGreater(e.id, args.low))
    /\ \A i \in 1..Len(ret.value) : \A j \in 1..Len(ret.value) :
         i < j => ret.value[i].id < ret.value[j].id

(***************************************************************************)
(* C18 Reconstruction failure is surfaced and stops the submission.        *)
(* loadLastState returns an error result exactly when the events after the *)
(* latest checkpoint do not have the ids version + 1, version + 2, ...;    *)
(* /load sends that result; and a storeEvent call whose reconstruction     *)
(* fails returns the same error in that step, with the tables, the         *)
(* AUTOINCREMENT counter and the transaction state unchanged.              *)
(***************************************************************************)
Replayable ==
  LET from == latestSnapshot(snapshots).version
      after == SelectSeq(events, LAMBDA e : e.id > from)
  IN \A i \in 1..Len(after) : after[i].id = from + i
FailureSurfaced ==
  /\ loadLastState(events, snapshots).status = (IF Replayable THEN "success" ELSE "error")
  /\ ~Replayable => IsOrderingError(loadLastState(events, snapshots).message)
  /\ Quiet /\ outcome.kind = "load" /\ outcome.response.status # "thrown" =>
       outcome.response = loadLastState(events, snapshots)
ReconstructionFailureStops ==
  /\ []FailureSurfaced
  /\ [][ \A r \in Requests :
           LET state == foldEvents(events, snapshot[r])
           IN kind[r] = "store" /\ pc[r] = "load_events" /\ ~state.ok
                /\ outcome'.response # Uncaught(SqliteBusy) =>
                /\ pc'[r] = "idle"
                /\ outcome' = [kind |-> "store", input |-> input[r],
                               response |-> Error(state.message)]
                /\ UNCHANGED <<events, snapshots, sqlite_sequence, inTxn, journal, accepted>>
       ]_vars

\* a submission to a store whose log has a gap after the checkpoint of
\* version 5 was answered with the ordering error of the reconstruction
ReconstructionFailureStopsWitness ==
  /\ ~Replayable
  /\ latestSnapshot(snapshots).version = SnapshotEvery
  /\ outcome.kind = "store" /\ isValidEventPayload(outcome.input)
  /\ outcome.response.status = "error" /\ IsOrderingError(outcome.response.message)
  /\ Len(events) >= SnapshotEvery

(***************************************************************************)
(* C19 The client view is monotonic and consistent: in every step the      *)
(* version of the snapshot the browser client holds does not decrease, and *)
(* the document it holds is the server's document as of that version (the  *)
(* fold of the events of the log with an id up to it), in whatever order   *)
(* the responses of its polls and submissions arrive.  The steps taken     *)
(* while the fetch of /load is still out are left aside.                   *)
(***************************************************************************)
DocumentAsOf(version) ==
  Reduce(SelectSeq(events, LAMBDA e : e.id <= version), NoSnapshot)
ViewConsistent ==
  /\ DocumentAsOf(clientSnapshot.version).ok
  /\ DocumentAsOf(clientSnapshot.version).version = clientSnapshot.version
  /\ DocumentAsOf(clientSnapshot.version).doc = clientSnapshot.doc
Loaded == \A f \in Fetches : fetches[f].kind # "load"
ClientViewMonotonic ==
  [][ Loaded => /\ clientSnapshot'.version >= clientSnapshot.version
                /\ ViewConsistent' ]_vars

(***************************************************************************)
(* C20 Eventual convergence by polling: once submissions have stopped, a   *)
(* client that keeps polling, each poll being answered, eventually holds   *)
(* the server's latest version and document, and holds them from then on.  *)
(* Polls are answered as long as the server process runs.                  *)
(***************************************************************************)
Converged ==
  /\ loadLastState(events, snapshots).status = "success"
  /\ clientSnapshot = loadLastState(events, snapshots).snapshot
EventuallyConverged == <>[](process = "exited" \/ Converged)
====
